---------------------------- MODULE Spec2Model ----------------------------
(***************************************************************************)
(* Kill-tracker backend (src/main.py, src/models.py): the startup          *)
(* readiness loop, the bearer-token Auth Gate, key issuance, the kill and  *)
(* death write endpoints with profile enrichment, and the list endpoints.  *)
(*                                                                         *)
(* Strings the code takes apart (the Authorization header) are sequences   *)
(* of one-character strings.  A JSON body is a function from field names   *)
(* to values; a field the client left out is a name outside its DOMAIN.    *)
(* A time string is [ok, inst, suffix]: an ISO date-time naming instant    *)
(* inst followed by the tokens of suffix ("Z", "+00:00"), or, with ok      *)
(* FALSE, text that is no timestamp at all.                                *)
(***************************************************************************)
EXTENDS Integers, Sequences, FiniteSets, TLC

\* ------------------------------------------------------------------ bounds

\* uuid4() draws from NumTokens distinct token strings.
NumTokens == 2

\* Authenticated, schema-valid write requests accepted per run.
MaxEvents == 2

\* for attempt in range(10)
RetryBound == 10

\* ----------------------------------------------------------------- strings

Last(s) == s[Len(s)]

Digits == <<"0", "1", "2", "3", "4", "5", "6", "7", "8", "9">>

\* str.lower() on one character of the alphabet the headers are built from.
LowerChar(c) ==
    CASE c = "B" -> "b"
      [] c = "E" -> "e"
      [] c = "A" -> "a"
      [] c = "R" -> "r"
      [] c = "S" -> "s"
      [] c = "I" -> "i"
      [] c = "C" -> "c"
      [] c = "K" -> "k"
      [] c = "Z" -> "z"
      [] OTHER -> c

\* str.lower()
Lower(s) == [i \in DOMAIN s |-> LowerChar(s[i])]

\* The index of the first occurrence of character c in s, or 0.
FirstIndex(s, c) ==
    IF \E i \in DOMAIN s : s[i] = c
    THEN CHOOSE i \in DOMAIN s : s[i] = c /\ \A j \in 1..(i - 1) : s[j] # c
    ELSE 0

\* str.partition(c): <<before, separator, after>>, or <<s, "", "">> when c
\* does not occur.
Partition(s, c) ==
    LET i == FirstIndex(s, c)
    IN IF i = 0
       THEN <<s, <<>>, <<>>>>
       ELSE <<SubSeq(s, 1, i - 1), <<c>>, SubSeq(s, i + 1, Len(s))>>

BearerLit == <<"b", "e", "a", "r", "e", "r">>

\* ------------------------------------------------------------------ tokens

\* str(uuid.uuid4()): a non-empty string without spaces.
UUIDs == {<<"k", Digits[i + 1]>> : i \in 1..NumTokens}

DiscordIds == {"12345"}

\* A token uuid4 never produces.
UnknownToken == <<"z", "z">>

SomeUUID == <<"k", Digits[2]>>

Bearer(token) == <<"B", "e", "a", "r", "e", "r", " ">> \o token

\* Values a client may send as the Authorization header: "Bearer <token>"
\* with an issued-style, an unknown and an empty token, other spellings of
\* the scheme, another scheme, a missing space, two spaces, the empty string.
HeaderValues ==
    {Bearer(t) : t \in UUIDs \cup {UnknownToken, <<>>}}
    \cup {<<"b", "e", "a", "r", "e", "r", " ">> \o SomeUUID,
          <<"B", "E", "A", "R", "E", "R", " ">> \o SomeUUID,
          <<"B", "a", "s", "i", "c", " ">> \o SomeUUID,
          <<"B", "e", "a", "r", "e", "r">> \o SomeUUID,
          Bearer(<<" ">> \o SomeUUID),
          SomeUUID,
          <<>>}

\* The Authorization header of a request: absent, or present with a value.
NoHeader == [present |-> FALSE, value |-> <<>>]

Authorizations == {NoHeader} \cup {[present |-> TRUE, value |-> v] : v \in HeaderValues}

\* ---------------------------------------------------------------- Auth Gate

\* db.query(APIKey).filter_by(key=token).first()
KeyLookup(api_keys, token) == {k \in api_keys : k.key = token}

GetApiKeyNoLookup(authorization, api_keys) ==
    LET p == Partition(authorization, " ")
    IN IF Lower(p[1]) # BearerLit \/ p[3] = <<>>
       THEN [status |-> 401, looked_up |-> FALSE]
       ELSE [status |-> 200, looked_up |-> FALSE]

GetApiKeyTokenOnly(authorization, api_keys) ==
    LET p == Partition(authorization, " ")
    IN IF p[3] = <<>>
       THEN [status |-> 401, looked_up |-> FALSE]
       ELSE IF KeyLookup(api_keys, p[3]) = {}
            THEN [status |-> 401, looked_up |-> TRUE]
            ELSE [status |-> 200, looked_up |-> TRUE]

\* get_api_key: 401 on a scheme other than bearer (any case) or an empty
\* token; otherwise one store read, 401 when the token is not stored.
GetApiKey(authorization, api_keys) ==
    LET p == Partition(authorization, " ")
    IN IF Lower(p[1]) # BearerLit \/ p[3] = <<>>
       THEN [status |-> 401, looked_up |-> FALSE]
       ELSE IF KeyLookup(api_keys, p[3]) = {}
            THEN [status |-> 401, looked_up |-> TRUE]
            ELSE [status |-> 200, looked_up |-> TRUE]

\* Depends(get_api_key) with Header(...): a request without the header fails
\* the dependency's parameter validation (422) and get_api_key is not called.
AuthDependency(auth, api_keys) ==
    IF ~auth.present
    THEN [status |-> 422, looked_up |-> FALSE]
    ELSE GetApiKey(auth.value, api_keys)

\* ------------------------------------------------------------- time values

Times == {1, 2}

\* "2024-01-0<inst>T00:00:00" followed by the suffix tokens.
TimeStr(inst, suffix) == [ok |-> TRUE, inst |-> inst, suffix |-> suffix]

\* Text that is no timestamp ("yesterday").
NotATime == [ok |-> FALSE, inst |-> 0, suffix |-> <<>>]

\* The time strings clients send.
TimeStrings ==
    {TimeStr(i, <<"Z">>) : i \in Times} \cup {TimeStr(1, <<>>), NotATime}

\* pydantic's parse of a datetime field: a bare date-time is naive, one "Z"
\* or an offset makes it aware; anything else does not validate.
ParsesAsDatetime(s) == s.ok /\ s.suffix \in {<<>>, <<"Z">>, <<"+00:00">>}

ParseDatetime(s) ==
    [inst |-> s.inst, tz |-> IF s.suffix = <<>> THEN "naive" ELSE "utc"]

RECURSIVE RStripZTokens(_)
RStripZTokens(suffix) ==
    IF suffix # <<>> /\ Last(suffix) = "Z"
    THEN RStripZTokens(SubSeq(suffix, 1, Len(suffix) - 1))
    ELSE suffix

\* str.rstrip("Z"): every trailing "Z" removed.
RStripZ(s) == [s EXCEPT !.suffix = RStripZTokens(s.suffix)]

\* datetime.fromisoformat accepts the string (ValueError otherwise).
FromIsoformatOk(s) == s.ok /\ s.suffix \in {<<>>, <<"+00:00">>}

\* datetime.fromisoformat
FromIsoformat(s) ==
    [inst |-> s.inst, tz |-> IF s.suffix = <<>> THEN "naive" ELSE "utc"]

\* Column(DateTime): the column holds no time zone, a loaded value is naive.
DateTimeColumn(dt) == [inst |-> dt.inst, tz |-> "naive"]

\* datetime.isoformat()
Isoformat(dt) ==
    TimeStr(dt.inst, IF dt.tz = "naive" THEN <<>> ELSE <<"+00:00">>)

\* ------------------------------------------------------------ request bodies

None == "None"

KillRequired == {"player", "victim", "time", "zone", "weapon", "damage_type",
                 "rsi_profile", "game_mode", "client_ver", "killers_ship"}

KillDefaults == [mode |-> "pu-kill", victim_ship |-> None, avatar_url |-> None,
                 organization_name |-> None, organization_url |-> None]

KillModes == {"pu-kill", "ac-kill"}

DeathRequired == {"killer", "victim", "time", "zone", "weapon", "damage_type",
                  "rsi_profile", "game_mode", "killers_ship"}

DeathDefaults == [victim_ship |-> None, avatar_url |-> None,
                  organization_name |-> None, organization_url |-> None]

\* The model's fields with the request's values, defaults where it has none.
WithDefaults(body, defaults) ==
    [n \in DOMAIN body \cup DOMAIN defaults |->
        IF n \in DOMAIN body THEN body[n] ELSE defaults[n]]

\* A function without the field n: the client left it out.
Without(body, n) == [m \in DOMAIN body \ {n} |-> body[m]]

KillBody(t) ==
    [player |-> "Han", victim |-> "Greedo", time |-> t, zone |-> "Mos Eisley",
     weapon |-> "blaster", damage_type |-> "ballistic", rsi_profile |-> "rsi/Han",
     game_mode |-> "PU", client_ver |-> "4.0", killers_ship |-> "Falcon"]

DeathBody(t) ==
    [killer |-> "Han", victim |-> "Greedo", time |-> t, zone |-> "Mos Eisley",
     weapon |-> "blaster", damage_type |-> "ballistic", rsi_profile |-> "rsi/Han",
     game_mode |-> "PU", killers_ship |-> "Falcon"]

\* Bodies sent to POST /reportKill: well-formed ones, one without zone, one
\* whose mode is outside the Literal.
KillBodies ==
    {KillBody(t) : t \in TimeStrings}
    \cup {Without(KillBody(TimeStr(1, <<"Z">>)), "zone")}
    \cup {WithDefaults([mode |-> "fps"], KillBody(TimeStr(1, <<"Z">>)))}

\* Bodies sent to POST /reportDeath.
DeathBodies ==
    {DeathBody(t) : t \in TimeStrings}
    \cup {Without(DeathBody(TimeStr(1, <<"Z">>)), "zone")}

NoBody == [unused |-> TRUE]

\* class KillEvent(BaseModel): the body validates.
KillEventValid(body) ==
    /\ KillRequired \subseteq DOMAIN body
    /\ ParsesAsDatetime(body.time)
    /\ ("mode" \in DOMAIN body => body.mode \in KillModes)

\* The validated KillEvent.
KillEvent(body) ==
    [WithDefaults(body, KillDefaults) EXCEPT !.time = ParseDatetime(body.time)]

\* class DeathEvent(BaseModel): time is a str, any string validates.
DeathEventValid(body) == DeathRequired \subseteq DOMAIN body

\* The validated DeathEvent.
DeathEvent(body) == WithDefaults(body, DeathDefaults)

\* --------------------------------------------------------- Profile Enricher

NoMeta == [avatar_url |-> None, organization |-> [name |-> None, url |-> None]]

Unreachable == [reachable |-> FALSE]

\* A fetched citizen page: the two og meta tags' contents ("" when the tag
\* is absent or empty) and the first link whose href contains "/orgs/".
Page(og_image, og_image_url, link) ==
    [reachable |-> TRUE, og_image |-> og_image, og_image_url |-> og_image_url,
     link |-> link]

NoLink == [found |-> FALSE]

\* href: absolute or site-relative, path segments, with or without a final "/".
OrgLink(absolute, segs, slash, text) ==
    [found |-> TRUE, absolute |-> absolute, segs |-> segs, slash |-> slash,
     text |-> text]

Pages == {Page("", "avatar.png", OrgLink(FALSE, <<"orgs", "BLACK6">>, TRUE, ""))}

Upstreams == {Unreachable} \cup Pages

\* The absolute URL of an org link, split at "/" after the origin (a final
\* "/" leaves an empty last piece): href itself when it starts with "http",
\* else the site's origin followed by href.
OrgUrl(link) ==
    <<"https://robertsspaceindustries.com">> \o link.segs
        \o (IF link.slash THEN <<"">> ELSE <<>>)

RECURSIVE RStripSlash(_)
\* str.rstrip("/") on a URL split at "/".
RStripSlash(url) ==
    IF Len(url) > 1 /\ Last(url) = ""
    THEN RStripSlash(SubSeq(url, 1, Len(url) - 1))
    ELSE url

\* fetch_rsi_profile: empty metadata when the fetch fails, else the first
\* non-empty og tag and the org link's text or, without text, its last
\* path segment.
FetchRsiProfile(handle, upstream) ==
    IF ~upstream.reachable
    THEN NoMeta
    ELSE [avatar_url |->
              IF upstream.og_image # "" THEN upstream.og_image
              ELSE IF upstream.og_image_url # "" THEN upstream.og_image_url
              ELSE None,
          organization |->
              IF ~upstream.link.found
              THEN [name |-> None, url |-> None]
              ELSE [name |-> IF upstream.link.text # ""
                             THEN upstream.link.text
                             ELSE Last(RStripSlash(OrgUrl(upstream.link))),
                    url |-> OrgUrl(upstream.link)]]

\* -------------------------------------------------------------------- store

\* class KillEventModel(Base): the mapped columns.
KillEventModelColumns ==
    {"id", "player", "victim", "time", "zone", "weapon", "damage_type",
     "rsi_profile", "game_mode", "mode", "client_ver", "killers_ship",
     "avatar_url", "organization_name", "organization_url"}

\* class DeathEventModel(Base): the mapped columns.
DeathEventModelColumns ==
    {"id", "killer", "victim", "time", "zone", "weapon", "damage_type",
     "rsi_profile", "game_mode", "killers_ship",
     "avatar_url", "organization_name", "organization_url"}

\* The declarative constructor: a keyword that names no attribute of the
\* class raises TypeError.
ConstructorAccepts(columns, kwargs) == DOMAIN kwargs \subseteq columns

\* The keywords report_kill passes to KillEventModel(...).
KillKwargs(event, killer_meta, victim_meta) ==
    [player |-> event.player, victim |-> event.victim, time |-> event.time,
     zone |-> event.zone, weapon |-> event.weapon,
     damage_type |-> event.damage_type, rsi_profile |-> event.rsi_profile,
     game_mode |-> event.game_mode, mode |-> event.mode,
     client_ver |-> event.client_ver, killers_ship |-> event.killers_ship,
     victim_ship |-> event.victim_ship,
     avatar_url |-> killer_meta.avatar_url,
     organization_name |-> victim_meta.organization.name,
     organization_url |-> victim_meta.organization.url]

\* The keywords report_death passes to DeathEventModel(...), time parsed.
DeathKwargs(evt, killer_meta) ==
    [killer |-> evt.killer, victim |-> evt.victim,
     time |-> FromIsoformat(RStripZ(evt.time)),
     zone |-> evt.zone, weapon |-> evt.weapon,
     damage_type |-> evt.damage_type, rsi_profile |-> evt.rsi_profile,
     game_mode |-> evt.game_mode, killers_ship |-> evt.killers_ship,
     victim_ship |-> evt.victim_ship,
     avatar_url |-> killer_meta.avatar_url,
     organization_name |-> killer_meta.organization.name,
     organization_url |-> killer_meta.organization.url]

\* Column(Integer, primary_key=True): the next identity of a table that
\* never deletes.
NextId(table) == Cardinality(table) + 1

\* db.add(row); db.commit(): the row as the table holds it.
StoredRow(table, kwargs) ==
    [n \in DOMAIN kwargs \cup {"id"} |->
        IF n = "id" THEN NextId(table)
        ELSE IF n = "time" THEN DateTimeColumn(kwargs.time)
        ELSE kwargs[n]]

\* ----------------------------------------------------------- write handlers

ReportKillSwallowsError(event, up1, up2, kills, commit_fails) ==
    LET killer_meta == FetchRsiProfile(event.player, up1)
        victim_meta == FetchRsiProfile(event.victim, up2)
        kwargs == KillKwargs(event, killer_meta, victim_meta)
    IN IF ~ConstructorAccepts(KillEventModelColumns, kwargs)
       THEN [status |-> 200, table |-> kills,
             trace |-> <<"fetch", "fetch", "TypeError">>]
       ELSE IF commit_fails
       THEN [status |-> 200, table |-> kills,
             trace |-> <<"fetch", "fetch", "add", "commit_failed">>]
       ELSE [status |-> 200, table |-> kills \cup {StoredRow(kills, kwargs)},
             trace |-> <<"fetch", "fetch", "add", "commit">>]

\* The body of report_kill: two scrapes, build the row, add, commit; any
\* exception is rolled back and answered with 500.
ReportKill(event, up1, up2, kills, commit_fails) ==
    LET killer_meta == FetchRsiProfile(event.player, up1)
        victim_meta == FetchRsiProfile(event.victim, up2)
        kwargs == KillKwargs(event, killer_meta, victim_meta)
    IN IF ~ConstructorAccepts(KillEventModelColumns, kwargs)
       THEN [status |-> 500, table |-> kills,
             trace |-> <<"fetch", "fetch", "TypeError", "rollback">>]
       ELSE IF commit_fails
       THEN [status |-> 500, table |-> kills,
             trace |-> <<"fetch", "fetch", "add", "commit_failed", "rollback">>]
       ELSE [status |-> 200, table |-> kills \cup {StoredRow(kills, kwargs)},
             trace |-> <<"fetch", "fetch", "add", "commit">>]

\* The body of report_death: one scrape, then the row is built (the time
\* string is parsed here), added and committed; an exception leaves through
\* finally: db.close() and the framework answers 500.
ReportDeath(evt, up, deaths, commit_fails) ==
    LET killer_meta == FetchRsiProfile(evt.killer, up)
    IN IF ~FromIsoformatOk(RStripZ(evt.time))
       THEN [status |-> 500, table |-> deaths,
             trace |-> <<"fetch", "ValueError", "close">>]
       ELSE IF ~ConstructorAccepts(DeathEventModelColumns,
                                   DeathKwargs(evt, killer_meta))
       THEN [status |-> 500, table |-> deaths,
             trace |-> <<"fetch", "TypeError", "close">>]
       ELSE IF commit_fails
       THEN [status |-> 500, table |-> deaths,
             trace |-> <<"fetch", "add", "commit_failed", "close">>]
       ELSE [status |-> 201,
             table |-> deaths \cup {StoredRow(deaths, DeathKwargs(evt, killer_meta))},
             trace |-> <<"fetch", "add", "commit">>]

\* ------------------------------------------------------------ list handlers

\* The sequences that hold every row of the table exactly once.
Enumerations(table) ==
    {s \in [1..Cardinality(table) -> table] :
        \A i, j \in DOMAIN s : i # j => s[i] # s[j]}

\* query(KillEventModel).order_by(KillEventModel.id).all()
OrderedById(table) ==
    {s \in Enumerations(table) :
        \A i, j \in DOMAIN s : i < j => s[i].id <= s[j].id}

\* query(DeathEventModel).order_by(DeathEventModel.time).all(): any order
\* that is ascending in time (the store orders rows of equal time freely).
OrderedByTime(table) ==
    {s \in Enumerations(table) :
        \A i, j \in DOMAIN s : i < j => s[i].time.inst <= s[j].time.inst}

\* The attributes list_kills reads of each row.
ListKillsAttrs ==
    {"id", "player", "victim", "time", "zone", "weapon", "damage_type", "mode",
     "game_mode", "rsi_profile", "killers_ship", "victim_ship", "avatar_url",
     "organization_name", "organization_url"}

\* The attributes list_deaths reads of each row.
ListDeathsAttrs ==
    {"killer", "victim", "time", "zone", "weapon", "damage_type", "rsi_profile",
     "game_mode", "killers_ship", "victim_ship", "avatar_url",
     "organization_name", "organization_url"}

\* One item of GET /kills: e.time.isoformat(), the other attributes as stored.
KillItem(e) ==
    [n \in ListKillsAttrs |-> IF n = "time" THEN Isoformat(e.time) ELSE e[n]]

\* One item of GET /deaths: r.time.isoformat() + "Z".
DeathItem(r) ==
    [n \in ListDeathsAttrs |->
        IF n = "time"
        THEN TimeStr(r.time.inst, Isoformat(r.time).suffix \o <<"Z">>)
        ELSE r[n]]

\* The body of list_kills on the rows in the order the query returned them:
\* reading an attribute the row does not have raises AttributeError (500).
ListKills(rows) ==
    IF \E i \in DOMAIN rows : ~(ListKillsAttrs \subseteq DOMAIN rows[i])
    THEN [status |-> 500, body |-> <<>>]
    ELSE [status |-> 200, body |-> [i \in DOMAIN rows |-> KillItem(rows[i])]]

\* The body of list_deaths on the rows in the order the query returned them.
ListDeaths(rows) ==
    IF \E i \in DOMAIN rows : ~(ListDeathsAttrs \subseteq DOMAIN rows[i])
    THEN [status |-> 500, body |-> <<>>]
    ELSE [status |-> 200, body |-> [i \in DOMAIN rows |-> DeathItem(rows[i])]]

\* ------------------------------------------------------------ key issuance

CreateKeyReplaces(api_keys, new_key, discord_id) ==
    IF KeyLookup(api_keys, new_key) # {}
    THEN [status |-> 500, table |-> api_keys]
    ELSE [status |-> 201,
          table |-> {[key |-> new_key, discord_id |-> discord_id]}]

\* The body of create_key: the new row is added and committed; a token that
\* is already a primary key fails the commit (500) and changes nothing.
CreateKey(api_keys, new_key, discord_id) ==
    IF KeyLookup(api_keys, new_key) # {}
    THEN [status |-> 500, table |-> api_keys]
    ELSE [status |-> 201,
          table |-> api_keys \cup {[key |-> new_key, discord_id |-> discord_id]}]

\* ------------------------------------------------------------------ startup

LifespanNextPhaseNoRaise(log, outcome) ==
    IF outcome = "ok" THEN "serving"
    ELSE IF outcome # "OperationalError" THEN "fatal"
    ELSE IF Len(log) + 1 < RetryBound THEN "starting"
    ELSE "serving"

\* One iteration of lifespan's loop after the attempts in log: create_all
\* succeeds (break, then yield), raises OperationalError (sleep and go on,
\* or for/else: RuntimeError after the last attempt), or raises anything
\* else, which leaves the loop at once.
LifespanNextPhase(log, outcome) ==
    IF outcome = "ok" THEN "serving"
    ELSE IF outcome # "OperationalError" THEN "fatal"
    ELSE IF Len(log) + 1 < RetryBound THEN "starting"
    ELSE "fatal"

\* -------------------------------------------------------------------- state

VARIABLES
    phase,        \* lifespan: "starting", "serving" (after yield), "fatal"
    attemptLog,   \* the outcome of each create_all attempt so far
    api_keys,     \* table api_keys
    kills,        \* table kills
    deaths,       \* table deaths
    req,          \* the last request handled
    resp,         \* its response
    trace,        \* the store and network steps taken for it, in order
    issued,       \* the tokens POST /keys has returned
    submitted     \* the authenticated, schema-valid write requests, in order

vars == <<phase, attemptLog, api_keys, kills, deaths, req, resp, trace,
          issued, submitted>>

NoRequest ==
    [op |-> "none", authorization |-> NoHeader, body |-> NoBody,
     upstreams |-> <<>>, discord_id |-> None]

NoResponse == [op |-> "none", status |-> 0, body |-> <<>>]

Request(op, auth, body, upstreams, discord_id) ==
    [op |-> op, authorization |-> auth, body |-> body, upstreams |-> upstreams,
     discord_id |-> discord_id]

Response(op, status, body) == [op |-> op, status |-> status, body |-> body]

Init ==
    /\ phase = "starting"
    /\ attemptLog = <<>>
    /\ api_keys = {}
    /\ kills = {}
    /\ deaths = {}
    /\ req = NoRequest
    /\ resp = NoResponse
    /\ trace = <<>>
    /\ issued = {}
    /\ submitted = <<>>

LookupTrace(auth) == IF auth.looked_up THEN <<"key_lookup">> ELSE <<>>

\* lifespan, one attempt.
LifespanAttempt ==
    /\ phase = "starting"
    /\ \E outcome \in {"ok", "OperationalError", "ProgrammingError"} :
          /\ attemptLog' = Append(attemptLog, outcome)
          /\ phase' = LifespanNextPhase(attemptLog, outcome)
    /\ UNCHANGED <<api_keys, kills, deaths, req, resp, trace, issued, submitted>>

\* GET / and GET /healthz
HealthCheck ==
    /\ phase = "serving"
    /\ req = NoRequest
    /\ \E op \in {"health_check", "healthz"} :
          /\ req' = Request(op, NoHeader, NoBody, <<>>, None)
          /\ resp' = Response(op, 200, <<>>)
    /\ trace' = <<>>
    /\ UNCHANGED <<phase, attemptLog, api_keys, kills, deaths, issued, submitted>>

\* POST /keys: X-Discord-ID is required (422 without it).
CreateKeyRequest ==
    /\ phase = "serving"
    /\ req = NoRequest
    /\ \E discord_id \in DiscordIds \cup {None}, new_key \in UUIDs :
          /\ req' = Request("create_key", NoHeader, NoBody, <<>>, discord_id)
          /\ IF discord_id = None
             THEN /\ resp' = Response("create_key", 422, <<>>)
                  /\ trace' = <<>>
                  /\ UNCHANGED <<api_keys, issued>>
             ELSE LET r == CreateKey(api_keys, new_key, discord_id)
                  IN /\ api_keys' = r.table
                     /\ resp' = Response("create_key", r.status,
                                         IF r.status = 201 THEN <<new_key>> ELSE <<>>)
                     /\ trace' = <<"add", IF r.status = 201 THEN "commit" ELSE "commit_failed">>
                     /\ issued' = IF r.status = 201 THEN issued \cup {new_key} ELSE issued
    /\ UNCHANGED <<phase, attemptLog, kills, deaths, submitted>>

\* GET /keys/validate
ValidateKeyRequest ==
    /\ phase = "serving"
    /\ req = NoRequest
    /\ \E authorization \in Authorizations :
          LET auth == AuthDependency(authorization, api_keys)
          IN /\ req' = Request("validate_key", authorization, NoBody, <<>>, None)
             /\ resp' = Response("validate_key", auth.status, <<>>)
             /\ trace' = LookupTrace(auth)
    /\ UNCHANGED <<phase, attemptLog, api_keys, kills, deaths, issued, submitted>>

\* POST /reportKill: the dependency get_api_key is solved first, then the
\* body is validated, then report_kill runs.
ReportKillRequest ==
    /\ phase = "serving"
    /\ req = NoRequest
    /\ \E authorization \in Authorizations, body \in KillBodies,
          up1 \in Upstreams, up2 \in Upstreams :
          LET auth == AuthDependency(authorization, api_keys)
          IN /\ req' = Request("report_kill", authorization, body, <<up1, up2>>, None)
             /\ IF auth.status = 401
                THEN /\ resp' = Response("report_kill", 401, <<>>)
                     /\ trace' = LookupTrace(auth)
                     /\ UNCHANGED <<kills, submitted>>
                ELSE IF auth.status = 422 \/ ~KillEventValid(body)
                THEN /\ resp' = Response("report_kill", 422, <<>>)
                     /\ trace' = LookupTrace(auth)
                     /\ UNCHANGED <<kills, submitted>>
                ELSE \E commit_fails \in BOOLEAN :
                     LET r == ReportKill(KillEvent(body), up1, up2, kills, commit_fails)
                     IN /\ Len(submitted) < MaxEvents
                        /\ resp' = Response("report_kill", r.status, <<>>)
                        /\ trace' = LookupTrace(auth) \o r.trace
                        /\ kills' = r.table
                        /\ submitted' = Append(submitted, [kind |-> "kill", body |-> body])
    /\ UNCHANGED <<phase, attemptLog, api_keys, deaths, issued>>

\* POST /reportDeath
ReportDeathRequest ==
    /\ phase = "serving"
    /\ req = NoRequest
    /\ \E authorization \in Authorizations, body \in DeathBodies,
          up \in Upstreams :
          LET auth == AuthDependency(authorization, api_keys)
          IN /\ req' = Request("report_death", authorization, body, <<up>>, None)
             /\ IF auth.status = 401
                THEN /\ resp' = Response("report_death", 401, <<>>)
                     /\ trace' = LookupTrace(auth)
                     /\ UNCHANGED <<deaths, submitted>>
                ELSE IF auth.status = 422 \/ ~DeathEventValid(body)
                THEN /\ resp' = Response("report_death", 422, <<>>)
                     /\ trace' = LookupTrace(auth)
                     /\ UNCHANGED <<deaths, submitted>>
                ELSE \E commit_fails \in BOOLEAN :
                     LET r == ReportDeath(DeathEvent(body), up, deaths, commit_fails)
                     IN /\ Len(submitted) < MaxEvents
                        /\ resp' = Response("report_death", r.status, <<>>)
                        /\ trace' = LookupTrace(auth) \o r.trace
                        /\ deaths' = r.table
                        /\ submitted' = Append(submitted, [kind |-> "death", body |-> body])
    /\ UNCHANGED <<phase, attemptLog, api_keys, kills, issued>>

\* GET /kills (no auth)
ListKillsRequest ==
    /\ phase = "serving"
    /\ req = NoRequest
    /\ \E rows \in OrderedById(kills) :
          LET r == ListKills(rows)
          IN /\ req' = Request("list_kills", NoHeader, NoBody, <<>>, None)
             /\ resp' = Response("list_kills", r.status, r.body)
             /\ trace' = <<"select">>
    /\ UNCHANGED <<phase, attemptLog, api_keys, kills, deaths, issued, submitted>>

\* GET /deaths
ListDeathsRequest ==
    /\ phase = "serving"
    /\ req = NoRequest
    /\ \E authorization \in Authorizations, rows \in OrderedByTime(deaths) :
          LET auth == AuthDependency(authorization, api_keys)
          IN /\ req' = Request("list_deaths", authorization, NoBody, <<>>, None)
             /\ IF auth.status # 200
                THEN /\ resp' = Response("list_deaths", auth.status, <<>>)
                     /\ trace' = LookupTrace(auth)
                ELSE LET r == ListDeaths(rows)
                     IN /\ resp' = Response("list_deaths", r.status, r.body)
                        /\ trace' = LookupTrace(auth) \o <<"select">>
    /\ UNCHANGED <<phase, attemptLog, api_keys, kills, deaths, issued, submitted>>

\* The response is sent and the request's scope ends.
Complete ==
    /\ req # NoRequest
    /\ req' = NoRequest
    /\ resp' = NoResponse
    /\ trace' = <<>>
    /\ UNCHANGED <<phase, attemptLog, api_keys, kills, deaths, issued, submitted>>

Next ==
    \/ LifespanAttempt
    \/ HealthCheck
    \/ CreateKeyRequest
    \/ ValidateKeyRequest
    \/ ReportKillRequest
    \/ ReportDeathRequest
    \/ ListKillsRequest
    \/ ListDeathsRequest
    \/ Complete

Spec == Init /\ [][Next]_vars

\* Startup alone, with the endpoints that do not write events.
NextStartup ==
    \/ LifespanAttempt
    \/ HealthCheck
    \/ CreateKeyRequest
    \/ ValidateKeyRequest
    \/ Complete

SpecStartup == Init /\ [][NextStartup]_vars

\* The server once lifespan has yielded on its first attempt.
InitServing ==
    /\ phase = "serving"
    /\ attemptLog = <<"ok">>
    /\ api_keys = {}
    /\ kills = {}
    /\ deaths = {}
    /\ req = NoRequest
    /\ resp = NoResponse
    /\ trace = <<>>
    /\ issued = {}
    /\ submitted = <<>>

NextServing ==
    \/ HealthCheck
    \/ CreateKeyRequest
    \/ ValidateKeyRequest
    \/ ReportKillRequest
    \/ ReportDeathRequest
    \/ ListKillsRequest
    \/ ListDeathsRequest
    \/ Complete

SpecServing == InitServing /\ [][NextServing]_vars

\* ------------------------------------------------- the claims' vocabulary

AuthOps == {"validate_key", "report_kill", "report_death", "list_deaths"}

WriteOps == {"report_kill", "report_death"}

\* The value starts with "Bearer " in any letter case.
HasBearerPrefix(v) ==
    /\ Len(v) >= 7
    /\ Lower(SubSeq(v, 1, 6)) = BearerLit
    /\ v[7] = " "

\* No "Bearer " prefix (so also: another scheme), or nothing after it.
MalformedHeader(v) == ~HasBearerPrefix(v) \/ Len(v) = 7

\* What follows the first seven characters.
TokenOf(v) == SubSeq(v, 8, Len(v))

StoredTokens == {k.key : k \in api_keys}

\* A string that names a timestamp.
IsTimestamp(s) == s.ok /\ s.suffix \in {<<>>, <<"Z">>, <<"+00:00">>}

\* A body with every required field, a timestamp and a known mode.
WellFormedBody(kind, body) ==
    /\ (IF kind = "kill" THEN KillRequired ELSE DeathRequired) \subseteq DOMAIN body
    /\ IsTimestamp(body.time)
    /\ (kind = "kill" /\ "mode" \in DOMAIN body => body.mode \in KillModes)

KindOf(op) == IF op = "report_kill" THEN "kill" ELSE "death"

\* The request carries "Bearer <t>" for an issued token t.
Authenticated(r) ==
    /\ r.authorization.present
    /\ \E t \in issued : r.authorization.value = Bearer(t)

RowFailure(tr) ==
    \E i \in DOMAIN tr : tr[i] \in {"TypeError", "ValueError", "commit_failed"}

\* ------------------------------------------------------------------ claims

\* C1: lifespan makes at most RetryBound attempts, one after another, each
\* made only after the store was unavailable (OperationalError) on all the
\* earlier ones; the server serves exactly when the last attempt made
\* succeeded, so after exactly N attempts when the store first answers on
\* attempt N; when the store was unavailable on all RetryBound attempts
\* startup has failed fatally; and before startup has succeeded, or after a
\* fatal failure, no request is handled: after a fatal failure nothing can
\* happen any more.
StartupBounded ==
    /\ Len(attemptLog) <= RetryBound
    /\ \A i \in 1..(Len(attemptLog) - 1) : attemptLog[i] = "OperationalError"
    /\ (phase = "serving") <=> (attemptLog # <<>> /\ Last(attemptLog) = "ok")
    /\ (Len(attemptLog) = RetryBound
        /\ \A i \in DOMAIN attemptLog : attemptLog[i] = "OperationalError")
       => phase = "fatal"
    /\ phase # "serving"
       => req = NoRequest /\ resp = NoResponse /\ api_keys = {} /\ issued = {}
    /\ phase = "fatal" => ~ENABLED NextStartup

\* C1 witness: the store was unavailable on all ten attempts and startup
\* has failed.
StartupExhausted ==
    /\ phase = "fatal"
    /\ Len(attemptLog) = RetryBound
    /\ \A i \in DOMAIN attemptLog : attemptLog[i] = "OperationalError"

\* C2: in every store state get_api_key answers 401 to every malformed
\* header value, and every request to an endpoint behind the Auth Gate that
\* carries a malformed header value is answered 401.
MalformedHeaderRejected ==
    /\ \A v \in HeaderValues :
          MalformedHeader(v) => GetApiKey(v, api_keys).status = 401
    /\ (resp.op \in AuthOps /\ req.authorization.present
        /\ MalformedHeader(req.authorization.value))
       => resp.status = 401

\* C2 witness: with keys stored, a write request with a malformed header
\* value has been answered 401.
MalformedHeaderSeen ==
    /\ api_keys # {}
    /\ resp.op = "report_kill"
    /\ req.authorization.present
    /\ MalformedHeader(req.authorization.value)
    /\ resp.status = 401

\* C3: every token POST /keys has returned is accepted by the Auth Gate as
\* "Bearer <token>" in every state reached afterwards, and a request that
\* carries it is never answered 401.
IssuedTokenAccepted ==
    /\ \A t \in issued : GetApiKey(Bearer(t), api_keys).status = 200
    /\ (resp.op \in AuthOps /\ Authenticated(req)) => resp.status # 401
    /\ (resp.op = "validate_key" /\ Authenticated(req)) => resp.status = 200

\* C3 witness: after two tokens were issued and a write request was
\* handled, a request with the first token passes the Auth Gate.
IssuedTokenUsedLater ==
    /\ Cardinality(issued) >= 2
    /\ submitted # <<>>
    /\ resp.op = "validate_key"
    /\ req.authorization.value = Bearer(SomeUUID)
    /\ resp.status = 200

\* C4: GET /keys/validate with "Bearer <t>" answers 200 exactly when t is a
\* stored key, the stored keys are exactly the issued tokens, and a token
\* that was never issued is answered 401.
ValidateIffStored ==
    /\ StoredTokens = issued
    /\ (resp.op = "validate_key" /\ req.authorization.present
        /\ req.authorization.value = Bearer(TokenOf(req.authorization.value)))
       => /\ resp.status = 200 <=> TokenOf(req.authorization.value) \in StoredTokens
          /\ TokenOf(req.authorization.value) \notin issued => resp.status = 401

\* C4 witness: a validate request with a stored token has been answered 200.
ValidateStoredSeen ==
    /\ resp.op = "validate_key"
    /\ TokenOf(req.authorization.value) \in StoredTokens
    /\ resp.status = 200

\* C10: a write request in which building or inserting the row fails is
\* answered 500 and leaves the kills and deaths tables as they were.
RowFailureRolledBack ==
    [][(resp'.op \in WriteOps /\ RowFailure(trace'))
       => (resp'.status = 500 /\ kills' = kills /\ deaths' = deaths)]_vars

\* C10 witness: a kill report failed while its row was built.
RowFailureSeen ==
    /\ resp.op = "report_kill"
    /\ RowFailure(trace)
    /\ resp.status = 500

\* The submitted values a list item must show again.
SameEvent(kind, body, item) ==
    /\ (IF kind = "kill" THEN item.player = body.player
                         ELSE item.killer = body.killer)
    /\ item.victim = body.victim
    /\ item.zone = body.zone
    /\ item.weapon = body.weapon
    /\ item.damage_type = body.damage_type
    /\ item.time = body.time

\* The well-formed bodies of one kind among the authenticated submissions,
\* in the order they were submitted.
SubmittedOf(kind) ==
    SelectSeq(submitted, LAMBDA e : e.kind = kind /\ WellFormedBody(kind, e.body))

\* C5: an authenticated POST /reportKill with a well-formed body whose
\* profile fetches all fail is answered with success, and the kills table
\* then holds a row for the event with empty avatar and organization.
KillRecordedWithoutEnrichment ==
    (/\ resp.op = "report_kill"
     /\ Authenticated(req)
     /\ WellFormedBody("kill", req.body)
     /\ \A i \in DOMAIN req.upstreams : ~req.upstreams[i].reachable)
    => /\ resp.status = 200
       /\ \E row \in kills :
             /\ row.player = req.body.player
             /\ row.victim = req.body.victim
             /\ row.time.inst = req.body.time.inst
             /\ row.avatar_url = None
             /\ row.organization_name = None
             /\ row.organization_url = None

\* C6: every event submitted with a valid token and a well-formed body is an
\* item, with the submitted values, of every later response of its list
\* endpoint (of every later successful one for GET /deaths, which is behind
\* the Auth Gate).
SubmittedEventListed ==
    /\ resp.op = "list_kills"
       => \A i \in DOMAIN SubmittedOf("kill") :
             \E j \in DOMAIN resp.body :
                SameEvent("kill", SubmittedOf("kill")[i].body, resp.body[j])
    /\ (resp.op = "list_deaths" /\ resp.status = 200)
       => \A i \in DOMAIN SubmittedOf("death") :
             \E j \in DOMAIN resp.body :
                SameEvent("death", SubmittedOf("death")[i].body, resp.body[j])

\* C7: GET /kills lists the kill events in the order they were inserted,
\* with ascending identities; GET /deaths lists the death events, all of
\* them, in ascending time whatever the order they were inserted in.
ListsOrdered ==
    /\ resp.op = "list_kills"
       => /\ Len(resp.body) = Len(SubmittedOf("kill"))
          /\ \A i \in DOMAIN resp.body :
                resp.body[i].time.inst = SubmittedOf("kill")[i].body.time.inst
          /\ \A i, j \in DOMAIN resp.body :
                i < j => resp.body[i].id < resp.body[j].id
    /\ (resp.op = "list_deaths" /\ resp.status = 200)
       => /\ Len(resp.body) = Len(SubmittedOf("death"))
          /\ \A i, j \in DOMAIN resp.body :
                i < j => resp.body[i].time.inst <= resp.body[j].time.inst

\* C8: a write request (its body well-formed) whose Authorization header is
\* missing, malformed or carries a token that is not stored is answered 401
\* and changes none of the three tables.
UnauthorizedWriteRejected ==
    [][(/\ req'.op \in WriteOps
        /\ WellFormedBody(KindOf(req'.op), req'.body)
        /\ \/ ~req'.authorization.present
           \/ MalformedHeader(req'.authorization.value)
           \/ TokenOf(req'.authorization.value) \notin StoredTokens)
       => (/\ resp'.status = 401
           /\ kills' = kills /\ deaths' = deaths /\ api_keys' = api_keys)]_vars

\* C9: a write request with a malformed body is rejected as a client
\* error, and nothing was done for it but the Auth Gate's key lookup: no
\* profile fetch, no other store access.
MalformedBodyRejectedFirst ==
    (resp.op \in WriteOps /\ ~WellFormedBody(KindOf(req.op), req.body))
    => /\ resp.status \in {401, 422}
       /\ \A i \in DOMAIN trace : trace[i] = "key_lookup"

=============================================================================
